---- MODULE Spec2Model ----
(***************************************************************************)
(* The two sheet-listing scripts, inspect_xlsx.py (the "simple" variant:   *)
(* openpyxl first, zipfile as the fallback) and inspect_xlsx_advanced.py   *)
(* (the "advanced" variant: zipfile only, with the state attribute), as    *)
(* one state machine whose variable `variant` says which script runs.      *)
(*                                                                         *)
(* Text is modelled character by character: a text is a sequence of        *)
(* one-character strings, and the three regular expressions of the source  *)
(* are operators over such sequences that follow Python's re semantics     *)
(* (leftmost match, greedy quantifiers with backtracking, findall scanning *)
(* on after the end of each match).  The file's xl/workbook.xml is drawn   *)
(* as a structure (a sequence of elements with attributes) and rendered to *)
(* characters when the member is read; the program only ever sees the      *)
(* characters.                                                             *)
(***************************************************************************)
EXTENDS Integers, Sequences, FiniteSets, TLC

\* Bound of the model: the size of xl/workbook.xml, counted in elements plus
\* attributes (a sheet tag with two attributes has size 3).
MaxSize == 4

VARIABLES
    variant,      \* "simple" (inspect_xlsx.py) or "advanced" (inspect_xlsx_advanced.py)
    exists,       \* os.path.exists(file_path)
    lib,          \* openpyxl in this environment: "absent", "loadfails", "loads"
    archive,      \* the file as zipfile sees it: [valid, names, utf8]; utf8 is
                  \* whether the member can be read and decoded
    workbook,     \* the elements of xl/workbook.xml, as written by the producer
    pc,           \* position of the script
    stdout,       \* the lines printed so far
    exitCode,     \* -1 while running, then the process's exit code
    ret,          \* what inspect_via_openpyxl() returned: "none", "True", "False"
    calls,        \* the readers invoked so far, in order
    z,            \* state of the ZipFile handle: "none", "open", "closed"
    f,            \* state of the member handle:  "none", "open", "closed"
    content,      \* f.read().decode('utf-8')
    sheets,       \* simple: re.findall(...) names; also wb.sheetnames in the primary reader
    sheet_tags,   \* advanced: re.findall(r'<sheet [^>]*>', content)
    i             \* index of the for loop over sheets / sheet_tags

vars == <<variant, exists, lib, archive, workbook, pc, stdout, exitCode, ret,
          calls, z, f, content, sheets, sheet_tags, i>>

----------------------------------------------------------------------------
\* Characters and literals of the source

file_path == "App Database.xlsx"
MEMBER == "xl/workbook.xml"

QUOTE == "\""
GT == ">"
SHEET_OPEN == <<"<", "s", "h", "e", "e", "t", " ">>
NAME_EQ == <<"n", "a", "m", "e", "=", "\"">>
STATE_EQ == <<"s", "t", "a", "t", "e", "=", "\"">>
UNKNOWN == <<"U", "n", "k", "n", "o", "w", "n">>
VISIBLE == <<"v", "i", "s", "i", "b", "l", "e">>

----------------------------------------------------------------------------
\* Text helpers

\* s[p..] starts with the literal lit
StartsAt(s, p, lit) ==
    /\ p >= 1
    /\ p + Len(lit) - 1 <= Len(s)
    /\ \A k \in 1..Len(lit) : s[p + k - 1] = lit[k]

\* least index q >= p with s[q] = c, or 0
RECURSIVE IndexFrom(_, _, _)
IndexFrom(s, p, c) ==
    IF p > Len(s) THEN 0
    ELSE IF s[p] = c THEN p
    ELSE IndexFrom(s, p + 1, c)

\* s[a..b], empty when a > b
Slice(s, a, b) == IF a > b THEN <<>> ELSE SubSeq(s, a, b)

----------------------------------------------------------------------------
\* The regular expressions

\* Attempt  lit([^"]+)"  anchored at p: the end of the match (the closing quote)
\* or 0.  [^"]+ is greedy and cannot cross a quote, so it ends at the next quote,
\* and needs at least one character.
QuotedEnd(s, p, lit) ==
    IF ~StartsAt(s, p, lit) THEN 0
    ELSE LET v == p + Len(lit)
             q == IndexFrom(s, v, QUOTE)
         IN IF q = 0 \/ q = v THEN 0 ELSE q

\* re.search(lit + r'([^"]+)"', s).group(1), or <<>> wrapped as "no match":
\* the leftmost position at which the attempt succeeds.
RECURSIVE SearchFrom(_, _, _)
SearchFrom(s, p, lit) ==
    IF p > Len(s) THEN [found |-> FALSE, group |-> <<>>]
    ELSE LET e == QuotedEnd(s, p, lit)
         IN IF e # 0
            THEN [found |-> TRUE, group |-> Slice(s, p + Len(lit), e - 1)]
            ELSE SearchFrom(s, p + 1, lit)

re_search(lit, s) == SearchFrom(s, 1, lit)

\* Attempt  <sheet [^>]*>  anchored at p: the end of the match or 0.
TagEnd(s, p) ==
    IF ~StartsAt(s, p, SHEET_OPEN) THEN 0
    ELSE IndexFrom(s, p + Len(SHEET_OPEN), GT)

\* re.findall(r'<sheet [^>]*>', s)
RECURSIVE FindTagsFrom(_, _)
FindTagsFrom(s, p) ==
    IF p > Len(s) THEN <<>>
    ELSE LET e == TagEnd(s, p)
         IN IF e # 0
            THEN <<Slice(s, p, e)>> \o FindTagsFrom(s, e + 1)
            ELSE FindTagsFrom(s, p + 1)

findall_tags(s) == FindTagsFrom(s, 1)

\* Attempt  <sheet [^>]*name="([^"]+)"  anchored at p.  [^>]* is greedy: it first
\* runs to the next '>' (or the end of the text) and then gives characters back
\* one at a time, so the name=" that is used is the LAST one, before that '>',
\* from which the rest of the pattern matches.  Result: [e, group], e = 0 for no match.
RECURSIVE BacktrackName(_, _, _)
BacktrackName(s, q, lo) ==
    IF q < lo THEN [e |-> 0, group |-> <<>>]
    ELSE LET e == QuotedEnd(s, q, NAME_EQ)
         IN IF e # 0
            THEN [e |-> e, group |-> Slice(s, q + Len(NAME_EQ), e - 1)]
            ELSE BacktrackName(s, q - 1, lo)

SheetNameAt(s, p) ==
    IF ~StartsAt(s, p, SHEET_OPEN) THEN [e |-> 0, group |-> <<>>]
    ELSE LET lo == p + Len(SHEET_OPEN)
             g  == IndexFrom(s, lo, GT)
             hi == IF g = 0 THEN Len(s) + 1 ELSE g
         IN BacktrackName(s, hi, lo)

\* Mutant of FindNamesFrom: re.search in place of re.findall, the first match only.
RECURSIVE FindFirstNameFrom(_, _)
FindFirstNameFrom(s, p) ==
    IF p > Len(s) THEN <<>>
    ELSE LET m == SheetNameAt(s, p)
         IN IF m.e # 0 THEN <<m.group>> ELSE FindFirstNameFrom(s, p + 1)

\* re.findall(r'<sheet [^>]*name="([^"]+)"', s)
RECURSIVE FindNamesFrom(_, _)
FindNamesFrom(s, p) ==
    IF p > Len(s) THEN <<>>
    ELSE LET m == SheetNameAt(s, p)
         IN IF m.e # 0
            THEN <<m.group>> \o FindNamesFrom(s, m.e + 1)
            ELSE FindNamesFrom(s, p + 1)

findall_names(s) == FindNamesFrom(s, 1)

----------------------------------------------------------------------------
\* The file: what the producer wrote into the workbook part

K_NAME == <<"n", "a", "m", "e">>
K_STATE == <<"s", "t", "a", "t", "e">>
K_ALTNAME == <<"a", "l", "t", "n", "a", "m", "e">>
K_SUBSTATE == <<"s", "u", "b", "s", "t", "a", "t", "e">>

\* The attributes a sheet tag may carry: two names, a state, and two foreign
\* attributes whose own names end in "name" and in "state".
Attrs ==
    { [key |-> K_NAME, val |-> <<"A">>],
      [key |-> K_NAME, val |-> <<"B">>],
      [key |-> K_STATE, val |-> <<"h">>],
      [key |-> K_ALTNAME, val |-> <<"X">>],
      [key |-> K_SUBSTATE, val |-> <<"v">>] }

\* Attribute lists of length n without a repeated key (XML forbids repeats)
AttrLists(n) ==
    { as \in [1..n -> Attrs] :
        \A j, k \in 1..n : j # k => as[j].key # as[k].key }

SHEETS_ELEM == [tag |-> "sheets", attrs |-> <<>>]

\* Elements of size exactly c
ElemsOfSize(c) ==
    { [tag |-> "sheet", attrs |-> as] : as \in AttrLists(c - 1) }
        \cup (IF c = 1 THEN {SHEETS_ELEM} ELSE {})

\* Workbook parts of size at most n
RECURSIVE Workbooks(_)
Workbooks(n) ==
    {<<>>} \cup
    UNION { { <<e>> \o w : e \in ElemsOfSize(c), w \in Workbooks(n - c) } : c \in 1..n }

RenderAttr(a) == a.key \o <<"=", QUOTE>> \o a.val \o <<QUOTE>>

RECURSIVE RenderAttrs(_)
RenderAttrs(as) ==
    IF as = <<>> THEN <<>>
    ELSE IF Len(as) = 1 THEN RenderAttr(as[1])
    ELSE RenderAttr(as[1]) \o <<" ">> \o RenderAttrs(Tail(as))

\* <sheets>   or   <sheet k1="v1" k2="v2"/>
RenderElem(e) ==
    IF e.tag = "sheets" THEN <<"<", "s", "h", "e", "e", "t", "s", ">">>
    ELSE SHEET_OPEN \o RenderAttrs(e.attrs) \o <<"/", ">">>

RECURSIVE Render(_)
Render(w) == IF w = <<>> THEN <<>> ELSE RenderElem(w[1]) \o Render(Tail(w))

\* The sheet elements of a workbook part, in document order
SheetElems(w) == SelectSeq(w, LAMBDA e : e.tag = "sheet")

\* The value of the attribute called exactly k, or <<>> when the tag has none
AttrVal(as, k) ==
    IF \E j \in 1..Len(as) : as[j].key = k
    THEN as[CHOOSE j \in 1..Len(as) : as[j].key = k].val
    ELSE <<>>

HasAttr(as, k) == \E j \in 1..Len(as) : as[j].key = k

\* wb.sheetnames: the names openpyxl reports, one per sheet that has a name
RECURSIVE SheetNames(_)
SheetNames(w) ==
    IF w = <<>> THEN <<>>
    ELSE (IF w[1].tag = "sheet" /\ HasAttr(w[1].attrs, K_NAME)
          THEN <<AttrVal(w[1].attrs, K_NAME)>> ELSE <<>>) \o SheetNames(Tail(w))

CONTENT_TYPES == "[Content_Types].xml"
OTHER_CASE == "xl/Workbook.xml"

Archives ==
    [valid : BOOLEAN,
     names : {{CONTENT_TYPES}, {CONTENT_TYPES, OTHER_CASE}, {CONTENT_TYPES, MEMBER}},
     utf8  : BOOLEAN]

NO_ARCHIVE == [valid |-> FALSE, names |-> {CONTENT_TYPES}, utf8 |-> TRUE]

----------------------------------------------------------------------------
\* Output lines

Line(kind, text, fields) == [kind |-> kind, text |-> text, fields |-> fields]

NotFoundLine == Line("File not found: ", file_path, <<>>)
MethodLine(m) == Line("Method: ", m, <<>>)
OPENPYXL == "openpyxl"
ZIPFILE == "zipfile (fallback)"
OpenpyxlError(e) == Line("openpyxl error: ", e, <<>>)
ZipfileError(e) == Line("zipfile error: ", e, <<>>)
MemberErrorLine == Line("Error: ", "xl/workbook.xml not found in zip.", <<>>)
\* f"Sheet: {sheet}"
SheetLine(sheet) == Line("Sheet: ", "", <<sheet>>)
\* f"Sheet: {name} (State: {state})"
SheetStateLine(name, state) == Line("Sheet: ", "", <<name, state>>)

print(line) == stdout' = Append(stdout, line)

----------------------------------------------------------------------------
\* Initial state: the script is about to run in some environment

Init ==
    /\ variant \in {"simple", "advanced"}
    /\ exists \in BOOLEAN
    /\ lib \in {"absent", "loadfails", "loads"}
    /\ archive \in Archives
    /\ workbook \in Workbooks(MaxSize)
    \* one representative per environment the script can tell apart
    /\ variant = "advanced" => lib = "absent"
    /\ ~exists => lib = "absent" /\ archive = NO_ARCHIVE
    /\ ~archive.valid => archive = NO_ARCHIVE /\ lib # "loads"
    /\ ~archive.utf8 => MEMBER \in archive.names /\ lib # "loads"
    /\ workbook # <<>> =>
           /\ archive.valid /\ archive.utf8
           /\ lib = "loads" \/ MEMBER \in archive.names
    /\ pc = "exists_check"
    /\ stdout = <<>>
    /\ exitCode = -1
    /\ ret = "none"
    /\ calls = <<>>
    /\ z = "none"
    /\ f = "none"
    /\ content = <<>>
    /\ sheets = <<>>
    /\ sheet_tags = <<>>
    /\ i = 0

env == <<variant, exists, lib, archive, workbook>>

----------------------------------------------------------------------------
\* Module top level: the existence check

\* Mutant of FileNotFound: the message is printed but sys.exit(1) is missing,
\* so the script goes on to the archive reader.
FileNotFoundNoExit ==
    /\ pc = "exists_check"
    /\ ~exists
    /\ print(NotFoundLine)
    /\ pc' = "zip_method"
    /\ calls' = Append(calls, "inspect_via_zip")
    /\ UNCHANGED <<env, exitCode, ret, z, f, content, sheets, sheet_tags, i>>

\* if not os.path.exists(file_path): print(...); sys.exit(1)
FileNotFound ==
    /\ pc = "exists_check"
    /\ ~exists
    /\ print(NotFoundLine)
    /\ exitCode' = 1
    /\ pc' = "exit"
    /\ UNCHANGED <<env, ret, calls, z, f, content, sheets, sheet_tags, i>>

\* the file exists: the simple variant calls inspect_via_openpyxl(), the
\* advanced one calls inspect_via_zip()
FileFound ==
    /\ pc = "exists_check"
    /\ exists
    /\ IF variant = "simple"
       THEN /\ pc' = "openpyxl_import"
            /\ calls' = Append(calls, "inspect_via_openpyxl")
       ELSE /\ pc' = "zip_method"
            /\ calls' = Append(calls, "inspect_via_zip")
    /\ UNCHANGED <<env, stdout, exitCode, ret, z, f, content, sheets, sheet_tags, i>>

----------------------------------------------------------------------------
\* inspect_via_openpyxl (simple variant)

\* import openpyxl raises ImportError: except ImportError: return False
ImportFails ==
    /\ pc = "openpyxl_import"
    /\ lib = "absent"
    /\ ret' = "False"
    /\ pc' = "top_if"
    /\ UNCHANGED <<env, stdout, exitCode, calls, z, f, content, sheets, sheet_tags, i>>

\* openpyxl.load_workbook raises: except Exception: print, return False
LoadFails ==
    /\ pc = "openpyxl_import"
    /\ lib = "loadfails"
    /\ print(OpenpyxlError("load_workbook"))
    /\ ret' = "False"
    /\ pc' = "top_if"
    /\ UNCHANGED <<env, exitCode, calls, z, f, content, sheets, sheet_tags, i>>

\* the workbook loads: print("Method: openpyxl"), start the loop over wb.sheetnames
LoadOk ==
    /\ pc = "openpyxl_import"
    /\ lib = "loads"
    /\ print(MethodLine(OPENPYXL))
    /\ sheets' = SheetNames(workbook)
    /\ i' = 1
    /\ pc' = "openpyxl_loop"
    /\ UNCHANGED <<env, exitCode, ret, calls, z, f, content, sheet_tags>>

\* for sheet in wb.sheetnames: print(f"Sheet: {sheet}")
OpenpyxlPrintSheet ==
    /\ pc = "openpyxl_loop"
    /\ i <= Len(sheets)
    /\ print(SheetLine(sheets[i]))
    /\ i' = i + 1
    /\ UNCHANGED <<env, pc, exitCode, ret, calls, z, f, content, sheets, sheet_tags>>

\* the print of a sheet name raises (a name stdout's encoding cannot encode):
\* the try block of lines 9-15 covers the loop, so except Exception prints and
\* returns False
OpenpyxlPrintRaises ==
    /\ pc = "openpyxl_loop"
    /\ i <= Len(sheets)
    /\ print(OpenpyxlError("UnicodeEncodeError"))
    /\ ret' = "False"
    /\ pc' = "top_if"
    /\ UNCHANGED <<env, exitCode, calls, z, f, content, sheets, sheet_tags, i>>

\* the loop is over: return True
OpenpyxlReturnTrue ==
    /\ pc = "openpyxl_loop"
    /\ i > Len(sheets)
    /\ ret' = "True"
    /\ pc' = "top_if"
    /\ UNCHANGED <<env, stdout, exitCode, calls, z, f, content, sheets, sheet_tags, i>>

\* Mutant of FallbackTaken: the fallback is called whatever the primary returned.
FallbackAlways(r) == r \in {"True", "False"}

\* if not inspect_via_openpyxl(): inspect_via_zip()
FallbackTaken(r) == r # "True"

TopIf ==
    /\ pc = "top_if"
    /\ IF FallbackTaken(ret)
       THEN /\ pc' = "zip_method"
            /\ calls' = Append(calls, "inspect_via_zip")
            /\ UNCHANGED exitCode
       ELSE /\ pc' = "exit"
            /\ exitCode' = 0
            /\ UNCHANGED calls
    /\ UNCHANGED <<env, stdout, ret, z, f, content, sheets, sheet_tags, i>>

----------------------------------------------------------------------------
\* inspect_via_zip (both variants)

\* print("Method: zipfile (fallback)")
ZipMethod ==
    /\ pc = "zip_method"
    /\ print(MethodLine(ZIPFILE))
    /\ pc' = "zip_open"
    /\ UNCHANGED <<env, exitCode, ret, calls, z, f, content, sheets, sheet_tags, i>>

\* Mutant of ZipOpenFails: no except clause, the exception ends the process
\* with a traceback and exit code 1.
ZipOpenPropagates ==
    /\ pc = "zip_open"
    /\ ~archive.valid
    /\ exitCode' = 1
    /\ pc' = "exit"
    /\ UNCHANGED <<env, stdout, ret, calls, z, f, content, sheets, sheet_tags, i>>

\* zipfile.ZipFile(file_path, 'r') raises: except Exception: print
ZipOpenFails ==
    /\ pc = "zip_open"
    /\ ~archive.valid
    /\ print(ZipfileError("BadZipFile"))
    /\ pc' = "zip_return"
    /\ UNCHANGED <<env, exitCode, ret, calls, z, f, content, sheets, sheet_tags, i>>

\* with zipfile.ZipFile(file_path, 'r') as z:
ZipOpen ==
    /\ pc = "zip_open"
    /\ archive.valid
    /\ z' = "open"
    /\ pc' = "zip_namelist"
    /\ UNCHANGED <<env, stdout, exitCode, ret, calls, f, content, sheets, sheet_tags, i>>

\* Mutant of HasMember: the member is looked up without regard to case.
HasMemberAnyCase(names) == MEMBER \in names \/ OTHER_CASE \in names

\* 'xl/workbook.xml' in z.namelist()
HasMember(names) == MEMBER \in names

\* else: print("Error: ..."); the with block ends and closes z
MemberMissing ==
    /\ pc = "zip_namelist"
    /\ ~HasMember(archive.names)
    /\ print(MemberErrorLine)
    /\ z' = "closed"
    /\ pc' = "zip_return"
    /\ UNCHANGED <<env, exitCode, ret, calls, f, content, sheets, sheet_tags, i>>

\* with z.open('xl/workbook.xml') as f:
MemberOpen ==
    /\ pc = "zip_namelist"
    /\ HasMember(archive.names)
    /\ f' = "open"
    /\ pc' = "zip_read"
    /\ UNCHANGED <<env, stdout, exitCode, ret, calls, z, content, sheets, sheet_tags, i>>

\* Mutant of Unwind: the handles are opened without with blocks, so an
\* exception leaves them open.
UnwindLeaks(e) ==
    /\ UNCHANGED <<f, z>>
    /\ print(ZipfileError(e))
    /\ pc' = "zip_return"

\* An exception leaves both with blocks: f.__exit__ and z.__exit__ close the
\* handles, then except Exception prints the message.
Unwind(e) ==
    /\ f' = "closed"
    /\ z' = "closed"
    /\ print(ZipfileError(e))
    /\ pc' = "zip_return"

\* f.read() raises (a damaged member: BadZipFile) or .decode('utf-8') raises
\* UnicodeDecodeError
READ_ERRORS == {"BadZipFile", "UnicodeDecodeError"}

DecodeFails ==
    /\ pc = "zip_read"
    /\ ~archive.utf8
    /\ \E e \in READ_ERRORS : Unwind(e)
    /\ UNCHANGED <<env, exitCode, ret, calls, content, sheets, sheet_tags, i>>

\* content = f.read().decode('utf-8')
ReadContent ==
    /\ pc = "zip_read"
    /\ archive.utf8
    /\ content' = Render(workbook)
    /\ pc' = "zip_findall"
    /\ UNCHANGED <<env, stdout, exitCode, ret, calls, z, f, sheets, sheet_tags, i>>

\* simple:   sheets = re.findall(r'<sheet [^>]*name="([^"]+)"', content)
\* advanced: sheet_tags = re.findall(r'<sheet [^>]*>', content)
FindAll ==
    /\ pc = "zip_findall"
    /\ IF variant = "simple"
       THEN sheets' = findall_names(content) /\ UNCHANGED sheet_tags
       ELSE sheet_tags' = findall_tags(content) /\ UNCHANGED sheets
    /\ i' = 1
    /\ pc' = "zip_loop"
    /\ UNCHANGED <<env, stdout, exitCode, ret, calls, z, f, content>>

\* advanced, lines 20-24: the descriptor <<name, state>> of one matched tag
Descriptor(tag) ==
    LET name_match == re_search(NAME_EQ, tag)
        state_match == re_search(STATE_EQ, tag)
        name == IF name_match.found THEN name_match.group ELSE UNKNOWN
        state == IF state_match.found THEN state_match.group ELSE VISIBLE
    IN <<name, state>>

\* the items of the loop, and the line printed for item k
Items == IF variant = "simple" THEN sheets ELSE sheet_tags

LineOf(k) ==
    IF variant = "simple" THEN SheetLine(sheets[k])
    ELSE SheetStateLine(Descriptor(sheet_tags[k])[1], Descriptor(sheet_tags[k])[2])

\* one iteration of the for loop
ZipPrintSheet ==
    /\ pc = "zip_loop"
    /\ i <= Len(Items)
    /\ print(LineOf(i))
    /\ i' = i + 1
    /\ UNCHANGED <<env, pc, exitCode, ret, calls, z, f, content, sheets, sheet_tags>>

\* the print of a sheet line raises inside both with blocks
ZipPrintRaises ==
    /\ pc = "zip_loop"
    /\ i <= Len(Items)
    /\ Unwind("UnicodeEncodeError")
    /\ UNCHANGED <<env, exitCode, ret, calls, content, sheets, sheet_tags, i>>

\* the loop is over: both with blocks end normally and close f, then z
ZipLoopDone ==
    /\ pc = "zip_loop"
    /\ i > Len(Items)
    /\ f' = "closed"
    /\ z' = "closed"
    /\ pc' = "zip_return"
    /\ UNCHANGED <<env, stdout, exitCode, ret, calls, content, sheets, sheet_tags, i>>

\* inspect_via_zip returns; the script ends: exit code 0
ZipReturn ==
    /\ pc = "zip_return"
    /\ exitCode' = 0
    /\ pc' = "exit"
    /\ UNCHANGED <<env, stdout, ret, calls, z, f, content, sheets, sheet_tags, i>>

----------------------------------------------------------------------------
Next ==
    \/ FileNotFound
    \/ FileFound
    \/ ImportFails
    \/ LoadFails
    \/ LoadOk
    \/ OpenpyxlPrintSheet
    \/ OpenpyxlPrintRaises
    \/ OpenpyxlReturnTrue
    \/ TopIf
    \/ ZipMethod
    \/ ZipOpenFails
    \/ ZipOpen
    \/ MemberMissing
    \/ MemberOpen
    \/ DecodeFails
    \/ ReadContent
    \/ FindAll
    \/ ZipPrintSheet
    \/ ZipPrintRaises
    \/ ZipLoopDone
    \/ ZipReturn

Spec == Init /\ [][Next]_vars

----------------------------------------------------------------------------
\* Vocabulary of the claims

Called(fn) == \E k \in 1..Len(calls) : calls[k] = fn

LinesOf(out, kind) == SelectSeq(out, LAMBDA l : l.kind = kind)

\* What inspect_via_zip printed: stdout from the reader's Method line on
ZipStart ==
    IF \E k \in 1..Len(stdout) : stdout[k] = MethodLine(ZIPFILE)
    THEN CHOOSE k \in 1..Len(stdout) :
            /\ stdout[k] = MethodLine(ZIPFILE)
            /\ \A j \in 1..(k - 1) : stdout[j] # MethodLine(ZIPFILE)
    ELSE 0

ZipOut == IF ZipStart = 0 THEN <<>> ELSE SubSeq(stdout, ZipStart, Len(stdout))

\* inspect_via_zip was called and has returned
ZipReturned == Called("inspect_via_zip") /\ pc \in {"zip_return", "exit"}

Terminated == pc = "exit"

\* C1: when the file does not exist the script prints exactly the not-found
\* line and exits with code 1; before and after, no reader has been called, no
\* handle was ever opened and nothing else was printed.
C1_MissingFileExits ==
    ~exists =>
        /\ calls = <<>>
        /\ z = "none" /\ f = "none"
        /\ ret = "none"
        /\ IF Terminated
           THEN stdout = <<NotFoundLine>> /\ exitCode = 1
           ELSE stdout = <<>> /\ pc = "exists_check" /\ exitCode = -1

C1_Witness == ~exists /\ Terminated /\ stdout = <<NotFoundLine>>

\* C4 as stated: on a valid archive without the member xl/workbook.xml, the
\* run's output, its Method line(s) aside, is the single line
\* "Error: xl/workbook.xml not found in zip."
C4_Original ==
    (Terminated /\ exists /\ archive.valid /\ MEMBER \notin archive.names) =>
        SelectSeq(stdout, LAMBDA l : l.kind # "Method: ") = <<MemberErrorLine>>

\* C4 as amended: on such an archive, whenever inspect_via_zip runs it prints
\* its Method line and then the single line "Error: xl/workbook.xml not found in
\* zip.", no Sheet line, closes the archive and lets no exception out (exit code
\* 0); in the advanced variant that is the whole output.
C4_MemberMissing ==
    (ZipReturned /\ archive.valid /\ MEMBER \notin archive.names) =>
        /\ ZipOut = <<MethodLine(ZIPFILE), MemberErrorLine>>
        /\ variant = "advanced" => stdout = ZipOut
        /\ z = "closed" /\ f = "none"
        /\ Terminated => exitCode = 0

C4_Witness ==
    /\ Terminated /\ Called("inspect_via_zip")
    /\ archive.valid /\ archive.names = {CONTENT_TYPES, OTHER_CASE}
    /\ stdout[Len(stdout)] = MemberErrorLine

\* The steps other than FindAll, whose only guard is its position.
StepsButFindAll ==
    \/ FileNotFound \/ FileFound
    \/ ImportFails \/ LoadFails \/ LoadOk
    \/ OpenpyxlPrintSheet \/ OpenpyxlPrintRaises \/ OpenpyxlReturnTrue \/ TopIf
    \/ ZipMethod \/ ZipOpenFails \/ ZipOpen \/ MemberMissing \/ MemberOpen
    \/ DecodeFails \/ ReadContent
    \/ ZipPrintSheet \/ ZipPrintRaises \/ ZipLoopDone \/ ZipReturn

\* C5: after the existence check every error is caught and printed: a failed
\* open of the archive and a failed decode print a "zipfile error:" line, a
\* failed load prints an "openpyxl error:" line; until it exits the script
\* always has a next step (no error stops it elsewhere); and it exits with
\* code 1 exactly when the file is missing and with code 0 otherwise.
C5_ErrorsCaught ==
    /\ ~Terminated => (pc = "zip_findall" \/ ENABLED StepsButFindAll)
    /\ exitCode \in {-1, 0, 1}
    /\ exitCode # -1 <=> Terminated
    /\ Terminated => (exitCode = 1 <=> ~exists)
    /\ (ZipReturned /\ ~archive.valid) =>
           ZipOut = <<MethodLine(ZIPFILE), ZipfileError("BadZipFile")>>
    /\ (ZipReturned /\ archive.valid /\ MEMBER \in archive.names /\ ~archive.utf8) =>
           \E e \in READ_ERRORS : ZipOut = <<MethodLine(ZIPFILE), ZipfileError(e)>>
    /\ (lib = "loadfails" /\ ret # "none") =>
           LinesOf(stdout, "openpyxl error: ") = <<OpenpyxlError("load_workbook")>>

C5_Witness ==
    /\ Terminated /\ exitCode = 0 /\ ~archive.valid
    /\ lib = "loadfails"
    /\ stdout = <<OpenpyxlError("load_workbook"), MethodLine(ZIPFILE),
                  ZipfileError("BadZipFile")>>

\* C6: in the simple variant inspect_via_zip is called exactly when
\* inspect_via_openpyxl returned False; without the library the primary reader
\* returns False having printed nothing; when load_workbook fails it returns
\* False having printed one "openpyxl error:" line; when it returns True the
\* fallback is never called and the archive is never opened.
C6_FallbackIffPrimaryFails ==
    variant = "simple" =>
        /\ Called("inspect_via_zip") => ret = "False"
        /\ (ret = "False" /\ pc # "top_if") => Called("inspect_via_zip")
        /\ (pc = "top_if" /\ lib = "absent") => ret = "False" /\ stdout = <<>>
        /\ (pc = "top_if" /\ lib = "loadfails") =>
               ret = "False" /\ stdout = <<OpenpyxlError("load_workbook")>>
        /\ ret = "True" =>
               /\ ~Called("inspect_via_zip")
               /\ z = "none" /\ f = "none"
               /\ LinesOf(stdout, "zipfile error: ") = <<>>
               /\ pc \in {"top_if", "exit"}

C6_Witness ==
    /\ variant = "simple" /\ Terminated
    /\ ret = "True" /\ ~Called("inspect_via_zip")
    /\ Len(LinesOf(stdout, "Sheet: ")) = 2

\* C7: the archive handle and the member handle are open only inside
\* inspect_via_zip, the member handle only while the archive handle is open, and
\* once inspect_via_zip has returned, on any path, neither is open.
C7_HandlesReleased ==
    /\ ZipReturned => z # "open" /\ f # "open"
    /\ Terminated => z # "open" /\ f # "open"
    /\ f = "open" => z = "open"
    /\ z = "open" => pc \in {"zip_namelist", "zip_read", "zip_findall", "zip_loop"}
    /\ z = "closed" => f # "open"

C7_Witness ==
    /\ Terminated /\ z = "closed" /\ f = "closed"
    /\ stdout[Len(stdout)] = ZipfileError("UnicodeEncodeError")
    /\ Len(LinesOf(ZipOut, "Sheet: ")) = 1

\* C9 as stated: a run that passes the existence check prints exactly one
\* Method line, it comes before every Sheet line, and the Sheet lines are those
\* of the reader it names.
C9_OneMethodLine ==
    (Terminated /\ exists) =>
        /\ Len(LinesOf(stdout, "Method: ")) = 1
        /\ \A k \in 1..Len(stdout) :
               stdout[k].kind = "Sheet: " =>
                   \E j \in 1..(k - 1) : stdout[j].kind = "Method: "
        /\ ~(Called("inspect_via_zip") /\ ret = "True")

----------------------------------------------------------------------------
\* Vocabulary of the claims about the extraction

\* inspect_via_zip read the member and finished its loop without an exception
ZipCompleted ==
    /\ ZipReturned
    /\ f = "closed"
    /\ stdout[Len(stdout)].kind # "zipfile error: "

\* the Sheet lines printed by inspect_via_zip
ZipSheets == LinesOf(ZipOut, "Sheet: ")

EndsWith(s, suf) ==
    /\ Len(s) >= Len(suf)
    /\ SubSeq(s, Len(s) - Len(suf) + 1, Len(s)) = suf

\* the tag has an attribute whose own name is, or ends in, "name"
HasNameLike(e) == \E k \in 1..Len(e.attrs) : EndsWith(e.attrs[k].key, K_NAME)

\* The descriptor the claims expect of a tag: the value of the attribute called
\* exactly name (else "Unknown") and of the one called exactly state (else "visible")
ExactDescriptor(e) ==
    << IF HasAttr(e.attrs, K_NAME) THEN AttrVal(e.attrs, K_NAME) ELSE UNKNOWN,
       IF HasAttr(e.attrs, K_STATE) THEN AttrVal(e.attrs, K_STATE) ELSE VISIBLE >>

\* The Sheet lines the running variant prints for a text
SheetLinesFor(text) ==
    IF variant = "simple"
    THEN [k \in 1..Len(findall_names(text)) |-> SheetLine(findall_names(text)[k])]
    ELSE [k \in 1..Len(findall_tags(text)) |->
             SheetStateLine(Descriptor(findall_tags(text)[k])[1],
                            Descriptor(findall_tags(text)[k])[2])]

C3_Original ==
    (ZipCompleted /\ variant = "advanced") =>
        LET tags == SheetElems(workbook)
        IN /\ Len(ZipSheets) = Len(tags)
           /\ \A k \in 1..Len(tags) :
                  ZipSheets[k] = SheetStateLine(ExactDescriptor(tags[k])[1],
                                                ExactDescriptor(tags[k])[2])

\* What the running variant extracts from one tag taken alone
Extracted(e) ==
    IF variant = "simple" THEN findall_names(RenderElem(e))
    ELSE LET tags == findall_tags(RenderElem(e))
         IN IF tags = <<>> THEN <<>> ELSE Descriptor(tags[1])

\* What C8 expects it to extract
Exact(e) ==
    IF variant = "simple"
    THEN (IF HasAttr(e.attrs, K_NAME) THEN <<AttrVal(e.attrs, K_NAME)>> ELSE <<>>)
    ELSE ExactDescriptor(e)

\* the same tag with its attributes in another order
Permuted(e) ==
    LET n == Len(e.attrs)
    IN { [tag |-> e.tag, attrs |-> [k \in 1..n |-> e.attrs[p[k]]]] :
           p \in { q \in [1..n -> 1..n] : \A j, k \in 1..n : j # k => q[j] # q[k] } }

\* the same tag without one of its attributes other than name and state
Stripped(e) ==
    { [tag |-> e.tag,
       attrs |-> SelectSeq(e.attrs, LAMBDA a : a # e.attrs[k])] :
         k \in { j \in 1..Len(e.attrs) : e.attrs[j].key \notin {K_NAME, K_STATE} } }

\* C8 as stated: what is extracted from a sheet tag is the value of the attribute
\* called exactly name (and state), and does not change when the tag's attributes
\* are permuted or another attribute is removed.
C8_Original ==
    pc = "zip_loop" =>
        \A k \in 1..Len(workbook) :
            workbook[k].tag = "sheet" =>
                /\ Extracted(workbook[k]) = Exact(workbook[k])
                /\ \A e \in Permuted(workbook[k]) \cup Stripped(workbook[k]) :
                       Extracted(e) = Extracted(workbook[k])

\* the names the advanced extraction finds in a text
AdvancedNames(text) ==
    [k \in 1..Len(findall_tags(text)) |-> Descriptor(findall_tags(text)[k])[1]]

\* C10 as stated: on the text that was read, the names found by the running
\* variant are, in number and order, the names the other variant finds.
C10_Original ==
    pc = "zip_loop" =>
        IF variant = "simple"
        THEN sheets = AdvancedNames(content)
        ELSE [k \in 1..Len(sheet_tags) |-> Descriptor(sheet_tags[k])[1]]
                 = findall_names(content)

====
